---- MODULE Spec2Model ----
(***************************************************************************)
(* Source verification of on-chain programs (webui/program_routes.py).    *)
(*                                                                         *)
(* submit_source_route compiles a submitted source text together with the *)
(* import texts of the form, compares the result with the bytecode on     *)
(* record and stores the text; upload_source_route renders the upload     *)
(* page and collects, for each declared import, the stored source text.   *)
(***************************************************************************)
EXTENDS Integers, Sequences, FiniteSets, TLC

(***************************************************************************)
(* Bounds                                                                  *)
(***************************************************************************)
\* number of submit_source_route requests that may be in flight together
NumRequests == 2

\* longest error text the compiler is taken to raise
MaxErrorLen == 258

\* largest number of programs in an index that a listing pages through
MaxPrograms == 101

\* largest page number a listing is asked for
MaxPage == 4

\* largest index that direct page reads are composed over
MaxSlice == 8

Requests == 1..NumRequests

(***************************************************************************)
(* Values                                                                  *)
(***************************************************************************)
\* Python's None (a missing form field, an absent row, an absent column)
None == "None"

\* a form field that carries a file upload instead of a string
UploadFile == "UploadFile"

\* the one built-in program the upload page recognises
BuiltinId == "credits.aleo"

(***************************************************************************)
(* Chain index: the programs on record, read through db.get_program.      *)
(* hello imports only the built-in; app -> lib -> hello is an import      *)
(* chain of depth two; ping and pong import each other.                   *)
(***************************************************************************)
ChainIds == {"hello.aleo", "lib.aleo", "app.aleo", "ping.aleo", "pong.aleo"}

\* ids a request may name that the chain index does not know
UnknownIds == {"ghost.aleo"}

\* the bytecode on record for a program id
Bytecode(id) ==
    CASE id = "hello.aleo" -> "bc_hello"
      [] id = "lib.aleo"   -> "bc_lib"
      [] id = "app.aleo"   -> "bc_app"
      [] id = "ping.aleo"  -> "bc_ping"
      [] id = "pong.aleo"  -> "bc_pong"

\* db.get_program: the bytecode of a known program, None for an unknown id
get_program(id) == IF id \in ChainIds THEN Bytecode(id) ELSE None

\* Program.load(bytes).imports: the declared imports, in declaration order
ProgramImports(bytes) ==
    CASE bytes = "bc_hello" -> <<"credits.aleo">>
      [] bytes = "bc_lib"   -> <<"hello.aleo">>
      [] bytes = "bc_app"   -> <<"credits.aleo", "lib.aleo">>
      [] bytes = "bc_ping"  -> <<"pong.aleo">>
      [] bytes = "bc_pong"  -> <<"ping.aleo">>
      [] OTHER              -> <<>>

\* program_id.split(".")[0] and str(i.program_id.name): the bare name
NameOf(id) ==
    CASE id = "hello.aleo"   -> "hello"
      [] id = "lib.aleo"     -> "lib"
      [] id = "app.aleo"     -> "app"
      [] id = "ping.aleo"    -> "ping"
      [] id = "pong.aleo"    -> "pong"
      [] id = "credits.aleo" -> "credits"
      [] id = "ghost.aleo"   -> "ghost"

(***************************************************************************)
(* Source texts and the compiler                                           *)
(***************************************************************************)
\* texts that compile when their imports are supplied
Texts == {"hello_v1", "hello_v2", "hello_alt", "lib_v1", "app_v1"}

\* the program name a text declares
Declares(s) ==
    CASE s \in {"hello_v1", "hello_v2", "hello_alt"} -> "hello"
      [] s = "lib_v1" -> "lib"
      [] s = "app_v1" -> "app"
      [] OTHER -> None

\* the import names a text uses
Uses(s) ==
    CASE s \in {"hello_v1", "hello_v2", "hello_alt"} -> {"credits"}
      [] s = "lib_v1" -> {"hello"}
      [] s = "app_v1" -> {"credits", "lib"}
      [] OTHER -> {}

\* the bytecode a text compiles to: hello_v1 and hello_v2 are two different
\* texts of the same program, hello_alt is a program with another body
Emits(s) ==
    CASE s \in {"hello_v1", "hello_v2"} -> "bc_hello"
      [] s = "hello_alt" -> "bc_hello_alt"
      [] s = "lib_v1" -> "bc_lib"
      [] s = "app_v1" -> "bc_app"
      [] OTHER -> None

\* an import is supplied when the list holds its name with a text that
\* declares it; the built-in needs only its name
Supplied(name, import_data) ==
    \E k \in 1..Len(import_data) :
        /\ import_data[k][1] = name
        /\ name = "credits" \/ Declares(import_data[k][2]) = name

\* aleo_explorer_rust.compile_program: a pure function of its arguments that
\* returns bytecode or raises RuntimeError
compile_program(source, name, import_data) ==
    IF /\ source \in Texts
       /\ Declares(source) = name
       /\ \A n \in Uses(source) : Supplied(n, import_data)
    THEN [error |-> FALSE, bytecode |-> Emits(source)]
    ELSE [error |-> TRUE, bytecode |-> None]

\* the k-th character of an error text
ErrorChar(k) == CASE k % 3 = 0 -> "a" [] k % 3 = 1 -> "b" [] OTHER -> "c"

\* an error text of n characters
ErrorText(n, shift) == [k \in 1..n |-> ErrorChar(k + shift)]

\* the error texts the compiler may raise
ErrorTexts == {ErrorText(n, shift) : n \in 0..MaxErrorLen, shift \in 0..1}

(***************************************************************************)
(* State                                                                   *)
(***************************************************************************)
VARIABLES
    store,   \* program id -> stored source text, None while absent
    pc,      \* request -> position in submit_source_route
    req,     \* request -> the locals of submit_source_route
    vpc,     \* position of the upload_source_route request
    view,    \* the locals of upload_source_route
    errtext, \* str(e) of the RuntimeError the compiler raises when it fails
    loop,    \* the request whose handler occupies the event loop, 0 when free
    index_size, \* number of programs in the index a listing pages through
    ppc,     \* position of the listing request
    pg,      \* the locals of programs_route / similar_programs_route
    slice,   \* the results of direct page reads of the similarity index
    prog     \* the locals of program_route

vars == <<store, pc, req, vpc, view, errtext, loop, index_size, ppc, pg, slice, prog>>

\* the variables of the listing routes and of the program page
pagevars == <<index_size, ppc, pg, slice>>

\* the locals of a listing request that is not running
NoPage ==
    [route |-> None, program_id |-> None, page |-> 0, status |-> 0, detail |-> None,
     total_pages |-> 0, start |-> 0, programs |-> <<>>]

\* no direct page read has been made
NoSlice == [k |-> 0, m |-> 0, first |-> <<>>, second |-> <<>>, whole |-> <<>>, again |-> <<>>]

\* the locals of a program page that is not running
NoProgramPage ==
    [program_id |-> None, status |-> 0, source |-> None, has_leo_source |-> FALSE]

(***************************************************************************)
(* The forms a client may post to submit_source_route                     *)
(***************************************************************************)
\* the programs submissions are made for
SubmitIds == {"hello.aleo", "lib.aleo", "app.aleo"}

\* form.get("id")
FormIds == {None, UploadFile} \cup UnknownIds \cup SubmitIds

\* form.get("source") offered with an id: nothing, a file, an empty string,
\* a text that does not compile, and the texts that declare that program
FormSources(id) ==
    IF id \in ChainIds
    THEN {None, UploadFile, "", "junk"} \cup {s \in Texts : Declares(s) = NameOf(id)}
    ELSE {"junk"}

\* form.getlist("imports[]") and form.getlist("import_programs[]") offered
\* with an id: the lists the upload page lays out for the program's declared
\* imports, filled in, left empty or sent in another order, and malformed
\* lists
FormImports(id) ==
    CASE id = "hello.aleo" -> {<< <<"credits">>, <<"">> >>,
                               << <<>>, <<>> >>}
      [] id = "lib.aleo"   -> {<< <<"hello">>, <<"hello_v1">> >>,
                               << <<"hello">>, <<"">> >>}
      [] id = "app.aleo"   -> {<< <<"credits", "lib">>, <<"", "lib_v1">> >>,
                               << <<"lib", "credits">>, <<"lib_v1", "">> >>,
                               << <<"credits", "lib">>, <<"">> >>,
                               << <<"credits", "lib">>, <<"", UploadFile>> >>,
                               << <<"credits", UploadFile>>, <<"", "lib_v1">> >>}
      [] OTHER             -> {<< <<>>, <<>> >>}

Forms ==
    UNION {UNION {{[id |-> id, source |-> s, imports |-> i[1], import_programs |-> i[2]] :
                    i \in FormImports(id)} : s \in FormSources(id)} : id \in FormIds}

(***************************************************************************)
(* submit_source_route                                                     *)
(***************************************************************************)
MissingId      == "Missing program id"
NotFound       == "Program not found"
MissingSource  == "Missing source code"
InvalidForm    == "Invalid form data"
CompileFailed  == "Failed to compile source code"
Mismatch       == "Program compiled from source code doesn't match program on chain"
Success        == "/program"

Rejections == {MissingId, NotFound, MissingSource, InvalidForm, CompileFailed, Mismatch}

\* the locals of a request that is not running
NoRequest ==
    [program_id |-> None, source |-> None, import_data |-> <<>>,
     outcome |-> None, commit_result |-> None, message |-> <<>>]

\* form checks that leave out the check of the source field
FormCheckNoSource(f) ==
    IF f.id = None \/ f.id = UploadFile THEN MissingId
    ELSE IF get_program(f.id) = None THEN NotFound
    ELSE IF Len(f.imports) # Len(f.import_programs) THEN InvalidForm
    ELSE IF \E k \in 1..Len(f.imports) :
                f.imports[k] = UploadFile \/ f.import_programs[k] = UploadFile
         THEN InvalidForm
    ELSE None

\* the checks made on the form before the compiler is called: the rejection
\* they end in, or None when the form passes
FormCheck(f) ==
    IF f.id = None \/ f.id = UploadFile THEN MissingId
    ELSE IF get_program(f.id) = None THEN NotFound
    ELSE IF f.source = None \/ f.source = UploadFile \/ f.source = "" THEN MissingSource
    ELSE IF Len(f.imports) # Len(f.import_programs) THEN InvalidForm
    ELSE IF \E k \in 1..Len(f.imports) :
                f.imports[k] = UploadFile \/ f.import_programs[k] = UploadFile
         THEN InvalidForm
    ELSE None

\* zip(imports, import_programs)
ImportData(f) == [k \in 1..Len(f.imports) |-> <<f.imports[k], f.import_programs[k]>>]

\* the stored text of an id, None for an id without a row
get_program_leo_source_code(s, id) == IF id \in DOMAIN s THEN s[id] ELSE None

\* a request arrives: the form is read and checked
Receive(r) ==
    /\ pc[r] = "idle"
    /\ \E f \in Forms :
        IF FormCheck(f) \in {MissingId, NotFound}
        THEN /\ pc' = [pc EXCEPT ![r] = "done"]
             /\ req' = [req EXCEPT ![r] =
                    [NoRequest EXCEPT !.program_id = f.id, !.outcome = FormCheck(f)]]
        ELSE IF FormCheck(f) # None
        THEN /\ pc' = [pc EXCEPT ![r] = "done"]
             /\ req' = [req EXCEPT ![r] =
                    [NoRequest EXCEPT !.program_id = f.id, !.source = f.source,
                                      !.outcome = FormCheck(f)]]
        ELSE /\ pc' = [pc EXCEPT ![r] = "compile"]
             /\ req' = [req EXCEPT ![r] =
                    [NoRequest EXCEPT !.program_id = f.id, !.source = f.source,
                                      !.import_data = ImportData(f)]]
    /\ UNCHANGED <<store, vpc, view, errtext, loop, pagevars, prog>>

\* a store that writes over an existing record
tryCommitOverwrite(s, id, source) ==
    [store |-> [s EXCEPT ![id] = source], result |-> "Committed"]

\* a store that keeps an existing record but reports every call as the first
tryCommitBlind(s, id, source) ==
    IF s[id] = None
    THEN [store |-> [s EXCEPT ![id] = source], result |-> "Committed"]
    ELSE [store |-> s, result |-> "Committed"]

\* db.store_program_leo_source_code: one atomic unit that creates the record
\* when the id has none and leaves an existing record as it is
tryCommit(s, id, source) ==
    IF s[id] = None
    THEN [store |-> [s EXCEPT ![id] = source], result |-> "Committed"]
    ELSE [store |-> s, result |-> "AlreadyCommitted"]

\* the longest compiler message passed on whole
TrimLimit == 255

\* the characters of "[trimmed]"
TrimMarker == <<"[", "t", "r", "i", "m", "m", "e", "d", "]">>

\* a trimming that cuts one character early
TrimMessageEarly(e) ==
    IF Len(e) >= TrimLimit THEN SubSeq(e, 1, TrimLimit - 1) \o TrimMarker ELSE e

\* msg: str(e), cut to its first 255 characters with the marker appended when
\* it is longer
TrimMessage(e) ==
    IF Len(e) > TrimLimit THEN SubSeq(e, 1, TrimLimit) \o TrimMarker ELSE e

\* a verdict that leaves out the comparison with the bytecode on record
VerdictNoCompare(program, compiled) ==
    IF compiled.error THEN CompileFailed ELSE None

\* the verdict on a compiler result against the bytecode on record
Verdict(program, compiled) ==
    IF compiled.error THEN CompileFailed
    ELSE IF program # compiled.bytecode THEN Mismatch
    ELSE None

\* a handler that stores the text before it compares the bytecode
CompileStoreFirst(r) ==
    /\ pc[r] = "compile"
    /\ LET program  == get_program(req[r].program_id)
           compiled == compile_program(req[r].source, NameOf(req[r].program_id),
                                       req[r].import_data)
           verdict  == Verdict(program, compiled)
       IN IF verdict = CompileFailed
          THEN /\ pc' = [pc EXCEPT ![r] = "done"]
               /\ req' = [req EXCEPT ![r].outcome = verdict,
                                     ![r].message = TrimMessage(errtext)]
               /\ store' = store
          ELSE IF verdict = Mismatch
          THEN /\ pc' = [pc EXCEPT ![r] = "done"]
               /\ req' = [req EXCEPT ![r].outcome = verdict]
               /\ store' = tryCommit(store, req[r].program_id, req[r].source).store
          ELSE /\ pc' = [pc EXCEPT ![r] = "store"]
               /\ req' = req
               /\ store' = store
    /\ UNCHANGED <<vpc, view, errtext, loop, pagevars, prog>>

\* lines 226-235: the compiler is called and its result is compared with the
\* program on record; a compiler error is reported with its trimmed message
CompileStep(r) ==
    /\ pc[r] = "compile"
    /\ LET program  == get_program(req[r].program_id)
           compiled == compile_program(req[r].source, NameOf(req[r].program_id),
                                       req[r].import_data)
           verdict  == Verdict(program, compiled)
       IN IF verdict = CompileFailed
          THEN /\ pc' = [pc EXCEPT ![r] = "done"]
               /\ req' = [req EXCEPT ![r].outcome = verdict,
                                     ![r].message = TrimMessage(errtext)]
          ELSE IF verdict # None
          THEN /\ pc' = [pc EXCEPT ![r] = "done"]
               /\ req' = [req EXCEPT ![r].outcome = verdict]
          ELSE /\ pc' = [pc EXCEPT ![r] = "store"]
               /\ req' = req
    /\ UNCHANGED <<store, vpc, view, errtext, pagevars, prog>>

\* the compiler runs and its result is compared with the program on record
Compile(r) == CompileStep(r) /\ UNCHANGED loop

\* a handler that answers a submission for an id that has a record with an
\* error
StoreRejectDuplicate(r) ==
    /\ pc[r] = "store"
    /\ LET c == tryCommit(store, req[r].program_id, req[r].source) IN
        /\ store' = c.store
        /\ req' = [req EXCEPT ![r].commit_result = c.result,
                              ![r].outcome = IF c.result = "Committed"
                                             THEN Success ELSE InvalidForm]
    /\ pc' = [pc EXCEPT ![r] = "done"]
    /\ UNCHANGED <<vpc, view, errtext, loop, pagevars, prog>>

\* a handler that stores the text under the id of the first program its
\* program imports
StoreUnderImport(r) ==
    /\ pc[r] = "store"
    /\ LET declared == ProgramImports(get_program(req[r].program_id))
           key == IF declared # <<>> /\ declared[1] \in ChainIds
                  THEN declared[1] ELSE req[r].program_id
           c == tryCommit(store, key, req[r].source) IN
        /\ store' = c.store
        /\ req' = [req EXCEPT ![r].commit_result = c.result, ![r].outcome = Success]
    /\ pc' = [pc EXCEPT ![r] = "done"]
    /\ UNCHANGED <<vpc, view, errtext, loop, pagevars, prog>>

\* the text is stored and the request is redirected to the program page
Store(r) ==
    /\ pc[r] = "store"
    /\ LET c == tryCommit(store, req[r].program_id, req[r].source) IN
        /\ store' = c.store
        /\ req' = [req EXCEPT ![r].commit_result = c.result, ![r].outcome = Success]
    /\ pc' = [pc EXCEPT ![r] = "done"]
    /\ UNCHANGED <<vpc, view, errtext, loop, pagevars, prog>>

\* the response is sent
Respond(r) ==
    /\ pc[r] = "done"
    /\ pc' = [pc EXCEPT ![r] = "idle"]
    /\ req' = [req EXCEPT ![r] = NoRequest]
    /\ UNCHANGED <<store, vpc, view, errtext, loop, pagevars, prog>>

(***************************************************************************)
(* submit_source_route on the event loop of one server process: a handler  *)
(* runs on the loop's thread and gives it up only at an await.  The call   *)
(* of compile_program is not awaited, so the thread stays inside it from   *)
(* the call to its return.                                                 *)
(***************************************************************************)
\* the form is read and checked, on a free loop
LoopReceive(r) == loop = 0 /\ Receive(r)

\* the handler of request r calls the compiler
CompileEnter(r) ==
    /\ loop = 0
    /\ pc[r] = "compile"
    /\ loop' = r
    /\ UNCHANGED <<store, pc, req, vpc, view, errtext, pagevars, prog>>

\* the compiler returns or raises, and the handler goes on to its next await
\* or to its return
CompileReturn(r) ==
    /\ loop = r
    /\ CompileStep(r)
    /\ loop' = 0

\* the store call of request r completes, on a free loop
LoopStore(r) == loop = 0 /\ Store(r)

\* the response is sent, on a free loop
LoopRespond(r) == loop = 0 /\ Respond(r)

(***************************************************************************)
(* upload_source_route                                                     *)
(***************************************************************************)
NoView ==
    [program_id |-> None, i |-> 0, imports |-> <<>>, import_programs |-> <<>>,
     has_leo_source |-> FALSE, lookups |-> <<>>, status |-> 0]

\* ids the page may be asked for
ViewIds == {None} \cup UnknownIds \cup ChainIds

\* the page is requested: the program is read and its own source looked up
UploadOpen ==
    /\ vpc = "idle"
    /\ \E id \in ViewIds :
        IF id = None
        THEN /\ vpc' = "done"
             /\ view' = [NoView EXCEPT !.status = 400]
        ELSE IF get_program(id) = None
        THEN /\ vpc' = "done"
             /\ view' = [NoView EXCEPT !.program_id = id, !.status = 404]
        ELSE IF get_program_leo_source_code(store, id) # None
        THEN /\ vpc' = "done"
             /\ view' = [NoView EXCEPT !.program_id = id, !.has_leo_source = TRUE,
                                       !.status = 200]
        ELSE /\ vpc' = "imports"
             /\ view' = [NoView EXCEPT !.program_id = id, !.i = 1]
    /\ UNCHANGED <<store, pc, req, errtext, loop, pagevars, prog>>

\* a loop body that looks up the built-in program like any other import
LookupImportAll(s, id) ==
    [src |-> get_program_leo_source_code(s, id), looked_up |-> <<id>>]

\* the stored text listed for one import: a lookup for every import but the
\* built-in program, which is listed as None without a lookup
LookupImport(s, id) ==
    IF id # BuiltinId
    THEN [src |-> get_program_leo_source_code(s, id), looked_up |-> <<id>>]
    ELSE [src |-> None, looked_up |-> <<>>]

\* a loop that does not move on to the next import
UploadImportStuck ==
    /\ vpc = "imports"
    /\ LET declared == ProgramImports(get_program(view.program_id)) IN
        IF view.i <= Len(declared)
        THEN /\ view' = [view EXCEPT
                    !.imports = Append(@, NameOf(declared[view.i])),
                    !.import_programs = Append(@, LookupImport(store, declared[view.i]).src),
                    !.lookups = @ \o LookupImport(store, declared[view.i]).looked_up]
             /\ vpc' = vpc
        ELSE /\ view' = [view EXCEPT !.status = 200]
             /\ vpc' = "done"
    /\ UNCHANGED <<store, pc, req, errtext, loop, pagevars, prog>>

\* one import of the program is taken up: its name and its text are listed;
\* after the last import the page is rendered
UploadImport ==
    /\ vpc = "imports"
    /\ LET declared == ProgramImports(get_program(view.program_id)) IN
        IF view.i <= Len(declared)
        THEN /\ view' = [view EXCEPT
                    !.imports = Append(@, NameOf(declared[view.i])),
                    !.import_programs = Append(@, LookupImport(store, declared[view.i]).src),
                    !.lookups = @ \o LookupImport(store, declared[view.i]).looked_up,
                    !.i = @ + 1]
             /\ vpc' = vpc
        ELSE /\ view' = [view EXCEPT !.status = 200]
             /\ vpc' = "done"
    /\ UNCHANGED <<store, pc, req, errtext, loop, pagevars, prog>>

\* the page is sent
UploadClose ==
    /\ vpc = "done"
    /\ vpc' = "idle"
    /\ view' = NoView
    /\ UNCHANGED <<store, pc, req, errtext, loop, pagevars, prog>>

(***************************************************************************)
(* program_route                                                           *)
(***************************************************************************)
\* disasm.aleo.disassemble_program(program): the text shown for a program
\* without a stored source
Disassembly == "disassembly"

\* the page of a program is requested: the program is read, then its stored
\* source, and the disassembly is shown when there is none
ProgramRoute ==
    /\ prog = NoProgramPage
    /\ \E id \in ViewIds :
        IF id = None
        THEN prog' = [NoProgramPage EXCEPT !.status = 400]
        ELSE IF get_program(id) = None
        THEN prog' = [NoProgramPage EXCEPT !.program_id = id, !.status = 404]
        ELSE LET leo_source == get_program_leo_source_code(store, id) IN
            IF leo_source # None
            THEN prog' = [NoProgramPage EXCEPT !.program_id = id, !.status = 200,
                                               !.source = leo_source,
                                               !.has_leo_source = TRUE]
            ELSE prog' = [NoProgramPage EXCEPT !.program_id = id, !.status = 200,
                                               !.source = Disassembly,
                                               !.has_leo_source = FALSE]
    /\ UNCHANGED <<store, pc, req, vpc, view, errtext, loop, pagevars>>

\* the page is sent
ProgramClose ==
    /\ prog # NoProgramPage
    /\ prog' = NoProgramPage
    /\ UNCHANGED <<store, pc, req, vpc, view, errtext, loop, pagevars>>

(***************************************************************************)
(* programs_route and similar_programs_route                               *)
(***************************************************************************)
\* programs on a page
PageSize == 50

\* the query parameter p: absent, an integer, or a text that is no integer
PageParams ==
    {[kind |-> "none", value |-> 0], [kind |-> "text", value |-> 0]}
        \cup {[kind |-> "int", value |-> v] : v \in -1..MaxPage}

\* page = 1 without the parameter, int(page) with it; int() raises on a text
ParsePage(p) ==
    CASE p.kind = "none" -> [ok |-> TRUE, page |-> 1]
      [] p.kind = "int"  -> [ok |-> TRUE, page |-> p.value]
      [] OTHER           -> [ok |-> FALSE, page |-> 0]

\* the rows of an index of n programs, in ingestion order
IndexRows(n) == [k \in 1..n |-> k]

\* a range read that takes the row at the end offset too
RowsBetweenInclusive(n, start, end) ==
    IF start >= n \/ end < start THEN <<>>
    ELSE SubSeq(IndexRows(n), start + 1, IF end + 1 < n THEN end + 1 ELSE n)

\* db.get_programs / db.get_programs_with_feature_hash: the rows at the
\* offsets start .. end - 1, none for offsets past the last row
RowsBetween(n, start, end) ==
    IF start >= n \/ end <= start THEN <<>>
    ELSE SubSeq(IndexRows(n), start + 1, IF end < n THEN end ELSE n)

\* a page of limit rows from an offset, read as the routes read it: with the
\* offset and the offset plus the limit
PageOf(n, offset, limit) == RowsBetween(n, offset, offset + limit)

\* a page count that is the number of pages that hold a program
TotalPagesCeil(n) == (n + PageSize - 1) \div PageSize

\* total_pages
TotalPages(n) == (n \div PageSize) + 1

\* start
PageStart(page) == PageSize * (page - 1)

\* db.get_program_feature_hash: None for a program the index does not know
get_program_feature_hash(id) == IF id \in ChainIds THEN "feature_hash" ELSE None

\* the page check and the page read that end both listing routes
ListPage(route, id, n, page) ==
    IF page < 1 \/ page > TotalPages(n)
    THEN [NoPage EXCEPT !.route = route, !.program_id = id, !.page = page,
                        !.total_pages = TotalPages(n),
                        !.status = 400, !.detail = "Invalid page"]
    ELSE [NoPage EXCEPT !.route = route, !.program_id = id, !.page = page,
                        !.total_pages = TotalPages(n),
                        !.start = PageStart(page),
                        !.programs = PageOf(n, PageStart(page), PageSize),
                        !.status = 200]

\* programs_route: the list of all programs
ProgramsRoute ==
    /\ ppc = "idle"
    /\ \E p \in PageParams :
        IF ~ParsePage(p).ok
        THEN pg' = [NoPage EXCEPT !.route = "programs", !.status = 400,
                                  !.detail = "Invalid page"]
        ELSE pg' = ListPage("programs", None, index_size, ParsePage(p).page)
    /\ ppc' = "done"
    /\ UNCHANGED <<store, pc, req, vpc, view, errtext, loop, index_size, slice, prog>>

\* ids the list of similar programs may be asked for
SimilarIds == {None, "ghost.aleo", "hello.aleo"}

\* similar_programs_route: the list of the programs with the feature hash of
\* one program
SimilarRoute ==
    /\ ppc = "idle"
    /\ \E p \in PageParams, id \in SimilarIds :
        IF ~ParsePage(p).ok
        THEN pg' = [NoPage EXCEPT !.route = "similar", !.status = 400,
                                  !.detail = "Invalid page"]
        ELSE IF id = None
        THEN pg' = [NoPage EXCEPT !.route = "similar", !.page = ParsePage(p).page,
                                  !.status = 400, !.detail = "Missing program id"]
        ELSE IF get_program_feature_hash(id) = None
        THEN pg' = [NoPage EXCEPT !.route = "similar", !.program_id = id,
                                  !.page = ParsePage(p).page,
                                  !.status = 404, !.detail = "Program not found"]
        ELSE pg' = ListPage("similar", id, index_size, ParsePage(p).page)
    /\ ppc' = "done"
    /\ UNCHANGED <<store, pc, req, vpc, view, errtext, loop, index_size, slice, prog>>

\* the list is sent
PageClose ==
    /\ ppc = "done"
    /\ ppc' = "idle"
    /\ pg' = NoPage
    /\ UNCHANGED <<store, pc, req, vpc, view, errtext, loop, index_size, slice, prog>>

\* three page reads of the similarity index: the first k rows, the next
\* m - k rows, and the first m rows
SliceRead ==
    /\ slice = NoSlice
    /\ \E m \in 0..index_size : \E k \in 0..m :
        slice' = [NoSlice EXCEPT !.k = k, !.m = m,
                                 !.first = PageOf(index_size, 0, k),
                                 !.second = PageOf(index_size, k, m - k),
                                 !.whole = PageOf(index_size, 0, m)]
    /\ UNCHANGED <<store, pc, req, vpc, view, errtext, loop, index_size, ppc, pg, prog>>

\* the second read is made once more
SliceRepeat ==
    /\ slice # NoSlice
    /\ slice' = [slice EXCEPT !.again = PageOf(index_size, slice.k, slice.m - slice.k)]
    /\ slice' # slice
    /\ UNCHANGED <<store, pc, req, vpc, view, errtext, loop, index_size, ppc, pg, prog>>

\* the reads are forgotten
SliceClose ==
    /\ slice # NoSlice
    /\ slice' = NoSlice
    /\ UNCHANGED <<store, pc, req, vpc, view, errtext, loop, index_size, ppc, pg, prog>>

(***************************************************************************)
(* Specifications                                                          *)
(***************************************************************************)
Init ==
    /\ store = [id \in ChainIds |-> None]
    /\ pc = [r \in Requests |-> "idle"]
    /\ req = [r \in Requests |-> NoRequest]
    /\ vpc = "idle"
    /\ view = NoView
    /\ errtext = ErrorText(3, 0)
    /\ loop = 0
    /\ index_size = 0
    /\ ppc = "idle"
    /\ pg = NoPage
    /\ slice = NoSlice
    /\ prog = NoProgramPage

\* concurrent submissions
Next ==
    \E r \in Requests : Receive(r) \/ Compile(r) \/ Store(r) \/ Respond(r)

Spec == Init /\ [][Next]_vars

\* one client that submits and opens the upload page, one request at a time
\* on each route
NextSeq ==
    \/ Receive(1) \/ Compile(1) \/ Store(1) \/ Respond(1)
    \/ UploadOpen \/ UploadImport \/ UploadClose

SeqSpec == Init /\ [][NextSeq]_vars

\* concurrent submissions served by one event loop
NextLoop ==
    \E r \in Requests :
        \/ LoopReceive(r)
        \/ CompileEnter(r)
        \/ CompileReturn(r)
        \/ LoopStore(r)
        \/ LoopRespond(r)

LoopSpec == Init /\ [][NextLoop]_vars

\* the same client, who also opens the program page
NextRead == NextSeq \/ ProgramRoute \/ ProgramClose

ReadSpec == Init /\ [][NextRead]_vars

\* the same client, with the upload page's handler run to completion
FairSeqSpec == SeqSpec /\ WF_vars(UploadImport)

\* one client that submits, against a compiler that may raise any error text
InitTrim ==
    /\ store = [id \in ChainIds |-> None]
    /\ pc = [r \in Requests |-> "idle"]
    /\ req = [r \in Requests |-> NoRequest]
    /\ vpc = "idle"
    /\ view = NoView
    /\ errtext \in ErrorTexts
    /\ loop = 0
    /\ index_size = 0
    /\ ppc = "idle"
    /\ pg = NoPage
    /\ slice = NoSlice
    /\ prog = NoProgramPage

\* listings of an index of any size
InitPage ==
    /\ store = [id \in ChainIds |-> None]
    /\ pc = [r \in Requests |-> "idle"]
    /\ req = [r \in Requests |-> NoRequest]
    /\ vpc = "idle"
    /\ view = NoView
    /\ errtext = ErrorText(3, 0)
    /\ loop = 0
    /\ index_size \in 0..MaxPrograms
    /\ ppc = "idle"
    /\ pg = NoPage
    /\ slice = NoSlice
    /\ prog = NoProgramPage

NextPage == ProgramsRoute \/ SimilarRoute \/ PageClose

PageSpec == InitPage /\ [][NextPage]_vars

\* direct page reads of a small similarity index
InitSlice ==
    /\ store = [id \in ChainIds |-> None]
    /\ pc = [r \in Requests |-> "idle"]
    /\ req = [r \in Requests |-> NoRequest]
    /\ vpc = "idle"
    /\ view = NoView
    /\ errtext = ErrorText(3, 0)
    /\ loop = 0
    /\ index_size \in 0..MaxSlice
    /\ ppc = "idle"
    /\ pg = NoPage
    /\ slice = NoSlice
    /\ prog = NoProgramPage

NextSlice == SliceRead \/ SliceRepeat \/ SliceClose

SliceSpec == InitSlice /\ [][NextSlice]_vars

NextTrim == Receive(1) \/ Compile(1) \/ Store(1) \/ Respond(1)

TrimSpec == InitTrim /\ [][NextTrim]_vars

(***************************************************************************)
(* Properties                                                              *)
(***************************************************************************)
\* the submission of request r reached the compiler
ReachedCompiler(r) ==
    \/ pc[r] \in {"compile", "store"}
    \/ pc[r] = "done" /\ req[r].outcome \in {CompileFailed, Mismatch, Success}

\* what the compiler returns for the submission of request r
Compiled(r) ==
    compile_program(req[r].source, NameOf(req[r].program_id), req[r].import_data)

\* request r has been answered with the success redirect
Accepted(r) == pc[r] = "done" /\ req[r].outcome = Success

\* C1: a submission whose compilation succeeds is accepted exactly when the
\* compiled bytecode equals the bytecode on record for its program id, and is
\* otherwise rejected as a bytecode mismatch; nothing reaches the store call
\* or the success redirect with other bytecode.
C1_AcceptedIffBytecodeEqual ==
    \A r \in Requests :
        /\ (pc[r] = "store" \/ Accepted(r)) =>
                /\ ~Compiled(r).error
                /\ Compiled(r).bytecode = Bytecode(req[r].program_id)
        /\ (pc[r] = "done" /\ ReachedCompiler(r) /\ ~Compiled(r).error) =>
                IF Compiled(r).bytecode = Bytecode(req[r].program_id)
                THEN req[r].outcome = Success
                ELSE req[r].outcome = Mismatch

C1_Witness ==
    \E r1, r2 \in Requests :
        /\ Accepted(r1)
        /\ pc[r2] = "done" /\ req[r2].outcome = Mismatch
        /\ ~Compiled(r2).error

\* C2: a stored source text is never altered or removed: once a program id
\* has a text, every step leaves that text as it is.
C2_CommittedIsPermanent ==
    [][\A id \in ChainIds : store[id] # None => store'[id] = store[id]]_vars

\* a later submission of a different text that compiles to the bytecode on
\* record has been answered while the first text is still the stored one
C2_Witness ==
    \E r \in Requests :
        /\ Accepted(r)
        /\ req[r].commit_result = "AlreadyCommitted"
        /\ store[req[r].program_id] # req[r].source

\* C3: of the submissions in flight for one program id at most one observes
\* Committed; the store call observes Committed exactly when the id had no
\* record at that very step, and leaves a record behind in either case; two
\* answered submissions never both observe Committed.
C3_OneCommitPerProgram ==
    /\ [](\A r1, r2 \in Requests :
            (r1 # r2 /\ Accepted(r1) /\ Accepted(r2)
                /\ req[r1].program_id = req[r2].program_id)
            => /\ ~(req[r1].commit_result = "Committed"
                    /\ req[r2].commit_result = "Committed")
               /\ store[req[r1].program_id] # None)
    /\ [][\A r \in Requests :
            (pc[r] = "store" /\ pc'[r] = "done") =>
                /\ (req'[r].commit_result = "Committed")
                        <=> (store[req[r].program_id] = None)
                /\ (req'[r].commit_result = "AlreadyCommitted")
                        <=> (store[req[r].program_id] # None)
                /\ store'[req[r].program_id] # None]_vars

\* two submissions of the same text for the same id, in flight together,
\* have both been answered: one observed Committed, the other AlreadyCommitted
C3_Witness ==
    \E r1, r2 \in Requests :
        /\ r1 # r2 /\ Accepted(r1) /\ Accepted(r2)
        /\ req[r1].program_id = req[r2].program_id
        /\ req[r1].source = req[r2].source
        /\ req[r1].commit_result = "Committed"
        /\ req[r2].commit_result = "AlreadyCommitted"
        /\ store[req[r1].program_id] = req[r1].source

\* the imports a program declares, in declaration order
Declared(id) == ProgramImports(get_program(id))

\* the elements of a sequence
Range(q) == {q[k] : k \in 1..Len(q)}

\* the ids reached from a set of ids by following declared imports n times
RECURSIVE ImportsWithin(_, _)
ImportsWithin(ids, n) ==
    IF n = 0 THEN ids
    ELSE ImportsWithin(ids \cup UNION {Range(Declared(id)) : id \in ids}, n - 1)

\* every program a program imports, directly or through its imports
TransitiveImports(id) == ImportsWithin(Range(Declared(id)), Cardinality(ChainIds))

\* the program lies on a cycle of the import graph
OnCycle(id) == id \in TransitiveImports(id)

\* the upload page has been rendered with the import lists of a program that
\* has no stored source
Resolved == vpc = "done" /\ view.status = 200 /\ ~view.has_leo_source

\* C4: every submission that reaches the compiler carries the resolved
\* imports of its program id: the names are the declared imports, and the
\* text of each import that is not built in is the text stored for it.
C4_ImportsAreResolved ==
    \A r \in Requests :
        pc[r] = "compile" =>
            LET declared == Declared(req[r].program_id)
                data     == req[r].import_data
            IN /\ Len(data) = Len(declared)
               /\ \A k \in 1..Len(data) :
                    k <= Len(declared) =>
                        /\ data[k][1] = NameOf(declared[k])
                        /\ declared[k] # BuiltinId => data[k][2] = store[declared[k]]

\* C5: an import without a stored source stops the submission before the
\* compiler is called, and stops the resolution: no program has a stored
\* source while one of its imports that is not built in has none.
C5_MissingImportRejected ==
    /\ \A id \in ChainIds :
        store[id] # None =>
            \A k \in 1..Len(Declared(id)) :
                Declared(id)[k] # BuiltinId => store[Declared(id)[k]] # None
    /\ \A r \in Requests :
        ReachedCompiler(r) =>
            \A k \in 1..Len(Declared(req[r].program_id)) :
                Declared(req[r].program_id)[k] # BuiltinId
                    => store[Declared(req[r].program_id)[k]] # None
    /\ Resolved =>
        \A k \in 1..Len(view.import_programs) :
            Declared(view.program_id)[k] # BuiltinId => view.import_programs[k] # None

\* C6: a submission for an id whose stored text differs from the submitted
\* text does not end in the success redirect.
C6_DifferentSourceRejected ==
    (/\ pc[1] = "done"
     /\ req[1].program_id \in ChainIds
     /\ store[req[1].program_id] # None
     /\ store[req[1].program_id] # req[1].source)
    => req[1].outcome # Success

\* C7: the same accepted submission made twice in sequence ends in the
\* success redirect both times: the store call creates the record with the
\* submitted text when the id has none, and observes AlreadyCommitted and
\* changes nothing when the record already holds that text.
C7_CommitIsIdempotent ==
    /\ [](/\ (pc[1] = "done" /\ ReachedCompiler(1) /\ ~Compiled(1).error
                /\ Compiled(1).bytecode = Bytecode(req[1].program_id))
             => /\ req[1].outcome = Success
                /\ req[1].commit_result \in {"Committed", "AlreadyCommitted"}
                /\ store[req[1].program_id] # None
          /\ (Accepted(1) /\ req[1].commit_result = "Committed")
             => store[req[1].program_id] = req[1].source)
    /\ [][(pc[1] = "store" /\ pc'[1] = "done") =>
            /\ req'[1].outcome = Success
            /\ store[req[1].program_id] = None =>
                    /\ req'[1].commit_result = "Committed"
                    /\ store' = [store EXCEPT ![req[1].program_id] = req[1].source]
            /\ store[req[1].program_id] = req[1].source =>
                    /\ req'[1].commit_result = "AlreadyCommitted"
                    /\ store' = store]_vars

\* the second of two equal submissions has been answered
C7_Witness ==
    /\ Accepted(1)
    /\ req[1].commit_result = "AlreadyCommitted"
    /\ store[req[1].program_id] = req[1].source

\* C8: a submission that ends in a rejection has written nothing: the store
\* changes only in the step of a request that is answered with the success
\* redirect, a step into a rejection leaves the store as it is, and a rejected
\* request has made no store call.
C8_RejectionWritesNothing ==
    /\ [](\A r \in Requests :
            (pc[r] = "done" /\ req[r].outcome \in Rejections)
                => req[r].commit_result = None)
    /\ [][/\ \A r \in Requests :
                (pc[r] # "done" /\ pc'[r] = "done" /\ req'[r].outcome \in Rejections)
                    => store' = store
          /\ store' # store =>
                \E r \in Requests :
                    /\ pc[r] = "store" /\ pc'[r] = "done"
                    /\ req'[r].outcome = Success
                    /\ \A id \in ChainIds \ {req[r].program_id} :
                            store'[id] = store[id]]_vars

\* a bytecode mismatch has been answered and the id is still without a
\* record, next to a request rejected for its form data
C8_Witness ==
    \E r1, r2 \in Requests :
        /\ pc[r1] = "done" /\ req[r1].outcome = Mismatch
        /\ store[req[r1].program_id] = None
        /\ pc[r2] = "done" /\ req[r2].outcome = InvalidForm

C10_BuiltinNeedsNoRecord ==
    /\ BuiltinId \notin Range(view.lookups)
    /\ vpc \in {"imports", "done"} =>
        \A k \in 1..Len(view.import_programs) :
            Declared(view.program_id)[k] = BuiltinId => view.import_programs[k] = None
    /\ (/\ vpc = "done" /\ view.program_id \in ChainIds /\ ~view.has_leo_source
        /\ Declared(view.program_id) = <<BuiltinId>>)
       => /\ view.status = 200
          /\ view.lookups = <<>>
          /\ view.imports = <<"credits">>
          /\ view.import_programs = <<None>>

\* a program whose only import is built in has been resolved on an empty store
C10_Witness ==
    /\ Resolved
    /\ view.program_id = "hello.aleo"
    /\ \A id \in ChainIds : store[id] = None
    /\ view.lookups = <<>>

\* C11: a compiler error ends in the compile-failure rejection with a bounded
\* message: an error text of at most 255 characters is reported unchanged, a
\* longer one as its first 255 characters followed by "[trimmed]"; no other
\* outcome carries a message, and a compiler error writes nothing to the store.
C11_CompileErrorIsTrimmed ==
    /\ [](\A r \in Requests :
            /\ (pc[r] = "done" /\ req[r].outcome = CompileFailed) =>
                /\ Len(errtext) <= 255 => req[r].message = errtext
                /\ Len(errtext) > 255 =>
                    /\ Len(req[r].message) = 255 + 9
                    /\ SubSeq(req[r].message, 1, 255) = SubSeq(errtext, 1, 255)
                    /\ SubSeq(req[r].message, 256, 264) = TrimMarker
                /\ req[r].commit_result = None
            /\ (pc[r] = "done" /\ ReachedCompiler(r) /\ Compiled(r).error)
                    => req[r].outcome = CompileFailed
            /\ ~(pc[r] = "done" /\ req[r].outcome = CompileFailed)
                    => req[r].message = <<>>)
    /\ [][\A r \in Requests :
            (pc[r] = "compile" /\ pc'[r] = "done" /\ req'[r].outcome = CompileFailed)
                => store' = store]_vars

\* an error text of 256 characters has been reported, cut and marked
C11_Witness ==
    \E r \in Requests :
        /\ pc[r] = "done" /\ req[r].outcome = CompileFailed
        /\ Len(errtext) = 256
        /\ Len(req[r].message) = 264

\* the listing request passed the checks of its parameters and reached the
\* page check
ReachedPageCheck ==
    /\ ppc = "done"
    /\ pg.status = 200 \/ (pg.status = 400 /\ pg.detail = "Invalid page" /\ pg.total_pages > 0)

\* C12: a request for the similar programs of a known program at a page whose
\* offset 50 * (p - 1) is at or past the count is answered with an empty list,
\* not with an error.
C12_PastTheEndIsEmpty ==
    (/\ ppc = "done" /\ pg.route = "similar"
     /\ pg.program_id \in ChainIds
     /\ pg.page >= 1
     /\ 50 * (pg.page - 1) >= index_size)
    => (pg.status = 200 /\ pg.programs = <<>>)

\* the rejections for an input error
InputErrors == {MissingId, NotFound, MissingSource}

\* the source field of a form that holds no text
NoSourceText == {None, UploadFile, ""}

\* C13: a submission with a missing program id, an id the chain index does
\* not know, or a missing or empty source is rejected in the step it arrives
\* in: the compiler is reached only with a known id and a source text, the
\* rejected request has made no store call, and its step leaves the store as
\* it was.
C13_InputErrorsRejectedAtOnce ==
    /\ [](\A r \in Requests :
            /\ ReachedCompiler(r) =>
                    (req[r].program_id \in ChainIds /\ req[r].source \notin NoSourceText)
            /\ (pc[r] = "done" /\ (req[r].program_id \notin ChainIds
                                    \/ req[r].source \in NoSourceText))
                    => req[r].outcome \in InputErrors
            /\ (pc[r] = "done" /\ req[r].outcome \in InputErrors) =>
                    /\ req[r].commit_result = None
                    /\ req[r].import_data = <<>>
                    /\ req[r].message = <<>>)
    /\ [][\A r \in Requests :
            (pc[r] # "done" /\ pc'[r] = "done" /\ req'[r].outcome \in InputErrors)
                => (pc[r] = "idle" /\ store' = store)]_vars

\* one request has been rejected for an empty source and another for an
\* unknown id
C13_Witness ==
    \E r1, r2 \in Requests :
        /\ pc[r1] = "done" /\ req[r1].outcome = MissingSource /\ req[r1].source = ""
        /\ pc[r2] = "done" /\ req[r2].outcome = NotFound
        /\ req[r2].program_id \in UnknownIds

\* C16: a step of a submission for program p changes no record but p's: every
\* change of the record of an id q, its creation or its text, is made by the
\* store call of a request whose program id is q, and a record always holds a
\* text that compiles to the bytecode of its own id.
C16_OtherRecordsUntouched ==
    /\ [][\A r \in Requests :
            pc'[r] # pc[r] =>
                \A q \in ChainIds :
                    store'[q] # store[q] =>
                        /\ q = req[r].program_id
                        /\ pc[r] = "store"
                        /\ store'[q] = req[r].source]_vars
    /\ [](\A q \in ChainIds :
            store[q] # None => Declares(store[q]) = NameOf(q))

\* two submissions for different programs have been accepted and each record
\* holds the text submitted for its own id
C16_Witness ==
    \E r1, r2 \in Requests :
        /\ Accepted(r1) /\ Accepted(r2)
        /\ req[r1].program_id # req[r2].program_id
        /\ store[req[r1].program_id] = req[r1].source
        /\ store[req[r2].program_id] = req[r2].source

\* C14: once a submission of text s for program p has been answered with the
\* success redirect, p has a record, it stays, and a read of p made after the
\* answer (the program page, the upload page) reports has_leo_source and, on
\* the program page, shows s.
C14_SuccessIsReadBack ==
    /\ [](\A r \in Requests : Accepted(r) => store[req[r].program_id] # None)
    /\ [][/\ \A q \in ChainIds : store[q] # None => store'[q] # None
          /\ \A r \in Requests :
                (Accepted(r) /\ prog = NoProgramPage /\ prog'.status = 200
                    /\ prog'.program_id = req[r].program_id)
                => (prog'.has_leo_source /\ prog'.source = req[r].source)
          /\ \A r \in Requests :
                (Accepted(r) /\ vpc = "idle" /\ vpc' # "idle"
                    /\ view'.program_id = req[r].program_id)
                => (view'.has_leo_source /\ vpc' = "done")]_vars

\* C15: while one request is inside the compile call for a program p, a
\* request for another program q can take its next step: arrive, call the
\* compiler, or complete its store call.
C15_CompileStallsNoOtherProgram ==
    \A r1, r2 \in Requests :
        (/\ r1 # r2
         /\ loop = r1
         /\ pc[r2] = "store"
         /\ req[r2].program_id # req[r1].program_id)
        => ENABLED LoopStore(r2)

\* C17: the lists of the upload page are aligned with the declared imports of
\* the program: equally long, the k-th name and the k-th text both those of
\* the k-th declared import; and the pairs a submission hands to the compiler
\* stand in that order.
C17_ImportOrderPreserved ==
    /\ vpc \in {"imports", "done"} =>
        /\ Len(view.imports) = Len(view.import_programs)
        /\ \A k \in 1..Len(view.imports) :
            /\ view.imports[k] = NameOf(Declared(view.program_id)[k])
            /\ view.import_programs[k] # None =>
                    /\ Declared(view.program_id)[k] # BuiltinId
                    /\ view.import_programs[k] = store[Declared(view.program_id)[k]]
    /\ Resolved => Len(view.imports) = Len(Declared(view.program_id))
    /\ \A r \in Requests :
        pc[r] = "compile" =>
            \A k \in 1..Len(req[r].import_data) :
                /\ k <= Len(Declared(req[r].program_id))
                /\ req[r].import_data[k][1] = NameOf(Declared(req[r].program_id)[k])

C19_PageArithmetic ==
    /\ ReachedPageCheck =>
        /\ pg.status = 200 <=> (1 <= pg.page /\ pg.page <= (index_size \div 50) + 1)
        /\ pg.status # 200 => (pg.status = 400 /\ pg.detail = "Invalid page")
        /\ pg.status = 200 =>
            /\ pg.start = 50 * (pg.page - 1)
            /\ Len(pg.programs) <= 50
            /\ \A j \in 1..index_size :
                (pg.start < j /\ j <= pg.start + 50)
                    <=> (\E i \in 1..Len(pg.programs) : pg.programs[i] = j)
            /\ \A i \in 1..Len(pg.programs) : pg.programs[i] = pg.start + i
        /\ (pg.status = 200 /\ index_size % 50 = 0
                /\ pg.page = (index_size \div 50) + 1) => pg.programs = <<>>
    /\ \A j \in 0..(index_size - 1) :
        \E p \in 1..TotalPages(index_size) :
            /\ PageStart(p) <= j /\ j < PageStart(p) + PageSize
            /\ p = (j \div 50) + 1
            /\ \A q \in 1..TotalPages(index_size) :
                (PageStart(q) <= j /\ j < PageStart(q) + PageSize) => q = p
    /\ index_size % 50 = 0 => PageStart(TotalPages(index_size)) = index_size

\* page 3 of 100 programs has been served, and it is empty
C19_Witness ==
    /\ ppc = "done" /\ pg.status = 200
    /\ index_size = 100 /\ pg.page = 3
    /\ pg.start = 100 /\ pg.programs = <<>>

====
